---- MODULE Spec2Model ----
(***************************************************************************)
(* Model of the transactional quote / billing-item workflow of             *)
(* manuarte-app-backend.                                                   *)
(*                                                                         *)
(* The relational store is the record db (the committed rows).  A call of  *)
(* a service method is a slot of calls: its position (pc), the arguments   *)
(* it has read so far, and the writes it has issued inside its still open  *)
(* sequelize transaction (pend).  Writes issued with { transaction } only  *)
(* reach db when the transaction commits; a rollback discards them.  Every *)
(* await of the source is one step, and every store access may fail with a *)
(* database error.  Arguments are drawn at the step that first reads them. *)
(* Row fields no operation modelled here branches on (shipping, currency,  *)
(* createdBy, dates, prices, names of items) are left out of the rows.     *)
(***************************************************************************)
EXTENDS Integers, Sequences, FiniteSets, TLC

VARIABLES db, calls, stock0

vars == <<db, calls, stock0>>

----------------------------------------------------------------------------
(* Bounds *)

MaxQuotes == 2
MaxItems == 2
MaxCustomers == 1
MaxQty == 2
MaxBillings == 2
MaxCancels == 2
MaxPersons == 2

----------------------------------------------------------------------------
(* Values *)

Null == "null"

Slots == {1, 2}

QuoteIds == {"q" \o ToString(n) : n \in 1..MaxQuotes}
CustomerIds == {"c" \o ToString(n) : n \in 1..MaxCustomers}
BillingIds == {"b" \o ToString(n) : n \in 1..MaxBillings}
SerialNumbers == 1..MaxQuotes
Names == {"ana", "luz"}
Variants == {"v1", "v2"}
StockIds == {"s1", "s2"}
StockKeys == Variants \X StockIds
PersonIds == {"p" \o ToString(n) : n \in 1..MaxPersons}
Dnis == {"d1", "d2"}
Emails == {"e1", "e2"}

QuoteStatus == {"ACCEPTED", "PENDING", "CANCELED", "REVISION", "OVERDUE"}
DiscountTypes == {"PERCENTAGE", "FIXED"}
DiscountTypeInputs == DiscountTypes \cup {Null}
(* A number of the request body is <<n>>; a missing one (undefined) is <<>>. *)
Missing == <<>>
Num(n) == <<n>>
DiscountInputs == {Missing, Num(0), Num(10)}

(* The header fields of a request body.  Each request varies the status or  *)
(* the discount fields, not both at once.                                   *)
HeaderDtos == {h \in [status : QuoteStatus, discountType : DiscountTypeInputs,
                      discount : DiscountInputs] :
                 h.status = "PENDING" \/ (h.discountType = Null /\ h.discount = Num(0))}

ShopSlugs == {"manuarte", "no-shop"}
(* the rows of the shop table, by slug *)
ShopModel == [s \in {"manuarte"} |-> [id |-> "shop1", currency |-> "COP"]]

(* the items of a quote are of the first variant: item lists differ in length *)
QuoteItemDtos == [productVariantId : {"v1"}]
QuoteItemLists == UNION {[1..n -> QuoteItemDtos] : n \in 0..MaxItems}

CustomerDtos == [fullName : Names \cup {Null},
                 customerId : CustomerIds \cup {Null},
                 personId : CustomerIds \cup {Null}]

(* billing items sell the first variant; the stock items of the others stand by *)
BillingItemDtos == [productVariantId : {"v1"}, stockId : StockIds, quantity : 1..MaxQty]
BillingItemLists == UNION {[1..n -> BillingItemDtos] : n \in 1..MaxItems}

(* Errors: the code of the database error underneath (parent.code) and the message. *)
Err(code, msg) == [code |-> code, msg |-> msg]
NoErr == Err("none", "")
UniqueViolation == Err("23505", "duplicate key value violates unique constraint")
OtherDbError == Err("08006", "connection failure")
DbErrors == {UniqueViolation, OtherDbError}
ItemsRequiredOnCreate == Err("none", "Es necesario al menos 1 item para crear una cotizacion")
ItemsNotIterable == Err("none", "quoteData.items is not iterable")
CustomerNotFound == Err("none", "Cliente no encontrado")
QuoteNotFound == Err("none", "Cotizacion no encontrada")
ItemsRequiredOnUpdate == Err("none", "La cotizacion debe tener al menos 1 item")
StockItemNotFound == Err("none", "stock item not found")

----------------------------------------------------------------------------
(* The store and the writes of a transaction *)

(* Tables are functions from the keys of the rows that exist. *)
NoRows == [k \in {} |-> Null]
Put(f, k, v) == [x \in DOMAIN f \cup {k} |-> IF x = k THEN v ELSE f[x]]
Remove(f, k) == [x \in DOMAIN f \ {k} |-> f[x]]

EmptyDb == [quotes |-> NoRows,
            quoteItems |-> [q \in QuoteIds |-> <<>>],
            customers |-> NoRows,
            stock |-> NoRows,
            billings |-> NoRows,
            billingItems |-> [b \in BillingIds |-> <<>>],
            persons |-> NoRows,
            users |-> NoRows]

NoItem == [productVariantId |-> Null, stockId |-> Null, quantity |-> 0]

W(t, id, val) == [t |-> t, id |-> id, val |-> val]

Apply(st, w) ==
  CASE w.t = "insCustomer" -> [st EXCEPT !.customers = Put(@, w.id, w.val)]
    [] w.t = "updCustomer" -> [st EXCEPT !.customers = Put(@, w.id, w.val)]
    [] w.t = "insQuote" -> [st EXCEPT !.quotes = Put(@, w.id, w.val)]
    [] w.t = "updQuote" -> [st EXCEPT !.quotes = Put(@, w.id, w.val)]
    [] w.t = "addItem" -> [st EXCEPT !.quoteItems[w.id] = Append(@, w.val)]
    [] w.t = "clearItems" -> [st EXCEPT !.quoteItems[w.id] = <<>>]
    [] w.t = "insBilling" -> [st EXCEPT !.billings = Put(@, w.id, w.val)]
    [] w.t = "updBilling" -> [st EXCEPT !.billings = Put(@, w.id, w.val)]
    [] w.t = "addBillingItem" -> [st EXCEPT !.billingItems[w.id] = Append(@, w.val)]
    [] w.t = "setStock" -> [st EXCEPT !.stock = Put(@, w.id, w.val)]
    [] w.t = "insPerson" -> [st EXCEPT !.persons = Put(@, w.id, w.val)]
    [] w.t = "updPerson" -> [st EXCEPT !.persons = Put(@, w.id, w.val)]
    [] w.t = "delPerson" -> [st EXCEPT !.persons = Remove(@, w.id)]
    [] w.t = "insUser" -> [st EXCEPT !.users = Put(@, w.id, w.val)]
    [] w.t = "updUser" -> [st EXCEPT !.users = Put(@, w.id, w.val)]
    [] w.t = "delUser" -> [st EXCEPT !.users = Remove(@, w.id)]

RECURSIVE ApplyAll(_, _)
ApplyAll(st, ws) == IF ws = <<>> THEN st ELSE ApplyAll(Apply(st, Head(ws)), Tail(ws))

(* What a read issued inside the transaction of call c sees: the committed  *)
(* rows and the call's own writes.                                          *)
View(c) == ApplyAll(db, calls[c].pend)

IdleCall == [op |-> "none", pc |-> "idle", tx |-> "none", pend |-> <<>>,
             hasItems |-> FALSE, items |-> <<>>, i |-> 0, customerId |-> Null, shop |-> Null,
             qid |-> Null, serial |-> 0, bid |-> Null,
             deduct |-> FALSE, stockId |-> Null, data |-> NoItem, operation |-> Null,
             read |-> 0, outcome |-> "none", status |-> 0, err |-> NoErr,
             snap |-> EmptyDb, itemPre |-> NoRows, subs |-> 0, discarded |-> 0,
             result |-> NoRows,
             customerData |-> [fullName |-> Null, customerId |-> Null, personId |-> Null],
             userData |-> [personId |-> Null, dni |-> Null, email |-> Null]]

Min(S) == CHOOSE x \in S : \A y \in S : x <= y

Goto(c, r) == calls' = [calls EXCEPT ![c] = r]

(* throw inside a try block: control passes to the catch block at pc handler *)
Throw(c, e, handler) == Goto(c, [calls[c] EXCEPT !.pc = handler, !.err = e])

(* return of a result object { status, ... } *)
Return(r, st) == [r EXCEPT !.pc = "done", !.outcome = "returned", !.status = st]

(* transaction.rollback() followed by throw error; discarded counts the     *)
(* writes the rollback undoes                                               *)
RollbackAndThrow(r) ==
  [r EXCEPT !.pc = "done", !.tx = "rolledback", !.pend = <<>>, !.outcome = "thrown",
            !.discarded = Len(r.pend)]

----------------------------------------------------------------------------
(* CustomerService and QuoteItemService, QuoteModel.generateSerialNumber *)

(* customerService.create: a person and a customer row with a new id *)
FreeCustomerIds(st) == CustomerIds \ DOMAIN st.customers
CustomerCreate(st, data) ==
  LET id == CHOOSE k \in FreeCustomerIds(st) : TRUE
  IN  [id |-> id, write |-> W("insCustomer", id, data.fullName)]

(* customerService.update: the customer of person personId, or none *)
CustomerUpdateFinds(st, data) == data.personId \in DOMAIN st.customers
CustomerUpdate(st, data) ==
  W("updCustomer", data.personId,
    IF data.fullName = Null THEN st.customers[data.personId] ELSE data.fullName)

(* quoteItemService.create: one quote-item row of the quote *)
QuoteItemCreate(item, quoteId) == W("addItem", quoteId, item)

(* generateSerialNumber: a serial number no stored quote carries *)
UsedSerials(st) == {st.quotes[q].serialNumber : q \in DOMAIN st.quotes}
GenerateSerialNumber(st) == Min(SerialNumbers \ UsedSerials(st))

(* ids are UUIDs: a new row never takes the id of a row or of a row in the making *)
FreeQuoteIds ==
  QuoteIds \ (DOMAIN db.quotes
                \cup {calls[d].qid : d \in {x \in Slots : /\ calls[x].op = "quote.create"
                                                         /\ calls[x].pc # "done"}})
Creating == {d \in Slots : calls[d].op = "quote.create" /\ calls[d].pc # "done"
                                                       /\ calls[d].qid = Null}

----------------------------------------------------------------------------
(* QuoteService.create *)

GreaterThanZero(d) == d # Missing /\ d[1] > 0

(* discount > 0 ? discountType : null *)
CreateDiscountType(discount, discountType) ==
  IF GreaterThanZero(discount) THEN discountType ELSE Null

(* the check of the item list left out *)
CreateItemsEmptyUnchecked(hasItems, items) == FALSE

(* quoteData?.items?.length === 0 *)
CreateItemsEmpty(hasItems, items) == hasItems /\ Len(items) = 0

QuoteCreateBegin(c) ==
  /\ calls[c].pc = "idle"
  /\ Cardinality(Creating) < Cardinality(FreeQuoteIds)
  /\ \E hasItems \in BOOLEAN :
       \E items \in (IF hasItems THEN QuoteItemLists ELSE {<<>>}) :
         Goto(c, [IdleCall EXCEPT !.op = "quote.create", !.pc = "create.check",
                                  !.tx = "open", !.hasItems = hasItems,
                                  !.items = items, !.snap = db])
  /\ UNCHANGED <<db, stock0>>

QuoteCreateCheck(c) ==
  /\ calls[c].pc = "create.check"
  /\ IF CreateItemsEmpty(calls[c].hasItems, calls[c].items)
       THEN Throw(c, ItemsRequiredOnCreate, "create.catch")
       ELSE Goto(c, [calls[c] EXCEPT !.pc = "create.customer"])
  /\ UNCHANGED <<db, stock0>>

(* a customer created whenever a full name is given *)
CreatesCustomerByName(data) == data.fullName # Null

(* customerData?.fullName && !customerData?.customerId *)
CreatesCustomer(data) == data.fullName # Null /\ data.customerId = Null

(* else if (customerData?.personId) *)
UpdatesCustomer(data) == ~CreatesCustomer(data) /\ data.personId # Null

QuoteCreateCustomer(c) ==
  /\ calls[c].pc = "create.customer"
  /\ \E data \in CustomerDtos :
       LET r == [calls[c] EXCEPT !.pc = "create.shop", !.customerData = data,
                                 !.customerId = data.customerId]
       IN  \/ /\ CreatesCustomer(data)
              /\ FreeCustomerIds(View(c)) # {}
              /\ \/ LET new == CustomerCreate(View(c), data)
                    IN  Goto(c, [r EXCEPT !.customerId = new.id,
                                          !.pend = Append(@, new.write)])
                 \/ \E e \in DbErrors : Throw(c, e, "create.catch")
           \/ /\ UpdatesCustomer(data)
              /\ \/ Goto(c, [r EXCEPT
                            !.pend = IF CustomerUpdateFinds(View(c), data)
                                     THEN Append(@, CustomerUpdate(View(c), data)) ELSE @])
                 \/ \E e \in DbErrors : Throw(c, e, "create.catch")
           \/ /\ ~CreatesCustomer(data) /\ ~UpdatesCustomer(data)
              /\ Goto(c, r)
  /\ UNCHANGED <<db, stock0>>

QuoteCreateShop(c) ==
  /\ calls[c].pc = "create.shop"
  /\ \E shopSlug \in ShopSlugs :
       \/ /\ shopSlug \in DOMAIN ShopModel
          /\ Goto(c, [calls[c] EXCEPT !.pc = "create.serial", !.shop = shopSlug])
       \/ /\ shopSlug \notin DOMAIN ShopModel
          /\ Goto(c, Return([calls[c] EXCEPT !.shop = shopSlug], 400))
       \/ \E e \in DbErrors : Throw(c, e, "create.catch")
  /\ UNCHANGED <<db, stock0>>

QuoteCreateSerial(c) ==
  /\ calls[c].pc = "create.serial"
  /\ \/ Goto(c, [calls[c] EXCEPT !.pc = "create.save",
                                  !.serial = GenerateSerialNumber(db)])
     \/ \E e \in DbErrors : Throw(c, e, "create.catch")
  /\ UNCHANGED <<db, stock0>>

NewQuoteRow(customerId, shopSlug, status, discountType, discount, serial) ==
  [customerId |-> customerId, shopId |-> ShopModel[shopSlug].id, status |-> status,
   discountType |-> CreateDiscountType(discount, discountType),
   discount |-> discount, serialNumber |-> serial]

(* The quote table holds serialNumber unique.  An insert of a serial number *)
(* that a stored quote carries fails with the unique violation; an insert   *)
(* of one that another open transaction has inserted waits for the end of   *)
(* that transaction.                                                        *)
PendingSerials(d) ==
  {calls[d].pend[j].val.serialNumber :
     j \in {n \in 1..Len(calls[d].pend) : calls[d].pend[n].t = "insQuote"}}
SerialHeld(c, serial) == \E d \in Slots \ {c} : serial \in PendingSerials(d)

(* a table without the unique constraint *)
SerialNeverTaken(st, serial) == FALSE

SerialTaken(st, serial) == serial \in UsedSerials(st)

QuoteCreateSave(c) ==
  /\ calls[c].pc = "create.save"
  /\ \/ \E h \in HeaderDtos :
          LET id == CHOOSE q \in FreeQuoteIds : TRUE
              row == NewQuoteRow(calls[c].customerId, calls[c].shop, h.status,
                                 h.discountType, h.discount, calls[c].serial)
          IN  /\ ~SerialTaken(View(c), calls[c].serial)
              /\ ~SerialHeld(c, calls[c].serial)
              /\ Goto(c, [calls[c] EXCEPT !.pc = "create.items", !.qid = id, !.i = 1,
                                           !.pend = Append(@, W("insQuote", id, row))])
     \/ /\ SerialTaken(View(c), calls[c].serial)
        /\ Throw(c, UniqueViolation, "create.catch")
     \/ Throw(c, OtherDbError, "create.catch")
  /\ UNCHANGED <<db, stock0>>

QuoteCreateItems(c) ==
  /\ calls[c].pc = "create.items"
  /\ \/ /\ ~calls[c].hasItems
        /\ Throw(c, ItemsNotIterable, "create.catch")
     \/ /\ calls[c].hasItems /\ calls[c].i <= Len(calls[c].items)
        /\ \/ Goto(c, [calls[c] EXCEPT
                      !.i = @ + 1,
                      !.pend = Append(@, QuoteItemCreate(calls[c].items[calls[c].i],
                                                         calls[c].qid))])
           \/ \E e \in DbErrors : Throw(c, e, "create.catch")
     \/ /\ calls[c].hasItems /\ calls[c].i > Len(calls[c].items)
        /\ Goto(c, [calls[c] EXCEPT !.pc = "create.commit"])
  /\ UNCHANGED <<db, stock0>>

QuoteCreateCommit(c) ==
  /\ calls[c].pc = "create.commit"
  /\ db' = View(c)
  /\ Goto(c, [Return(calls[c], 201) EXCEPT !.tx = "committed", !.pend = <<>>])
  /\ UNCHANGED stock0

(* a catch block that commits what the transaction holds *)
QuoteCreateCatchCommits(c) ==
  /\ calls[c].pc = "create.catch"
  /\ db' = View(c)
  /\ Goto(c, [calls[c] EXCEPT !.pc = "done", !.tx = "committed", !.pend = <<>>,
                              !.outcome = "thrown"])
  /\ UNCHANGED stock0

QuoteCreateCatch(c) ==
  /\ calls[c].pc = "create.catch"
  /\ Goto(c, RollbackAndThrow(calls[c]))
  /\ UNCHANGED <<db, stock0>>

----------------------------------------------------------------------------
(* QuoteService.update *)

(* the discount type stored as given *)
UpdateDiscountTypeAsGiven(discount, discountType) == discountType

(* quoteData?.discount > 0 ? quoteData?.discountType : null *)
UpdateDiscountType(discount, discountType) ==
  IF GreaterThanZero(discount) THEN discountType ELSE Null

(* quoteData?.discount || 0 *)
UpdateDiscount(discount) == IF discount = Missing THEN Num(0) ELSE discount

(* a missing item list accepted *)
UpdateItemsGivenOrMissing(hasItems, items) == hasItems => Len(items) > 0

(* any item list accepted, the empty one too *)
UpdateItemsGivenAny(hasItems, items) == hasItems

(* quoteData?.items?.length > 0 *)
UpdateItemsGiven(hasItems, items) == hasItems /\ Len(items) > 0

(* the status the header update stores *)
UpdateStatus(old, new) == new

UpdatedQuoteRow(row, customerId, status, discountType, discount) ==
  [row EXCEPT !.customerId = customerId,
              !.status = UpdateStatus(row.status, status),
              !.discountType = UpdateDiscountType(discount, discountType),
              !.discount = UpdateDiscount(discount)]

QuoteUpdateBegin(c) ==
  /\ calls[c].pc = "idle"
  /\ Goto(c, [IdleCall EXCEPT !.op = "quote.update", !.pc = "update.customer",
                               !.tx = "open", !.snap = db])
  /\ UNCHANGED <<db, stock0>>

(* the customer update issued without the transaction: it is stored at once *)
QuoteUpdateCustomerOutsideTx(c) ==
  /\ calls[c].pc = "update.customer"
  /\ \E data \in CustomerDtos :
       \/ /\ data.personId # Null
          /\ CustomerUpdateFinds(db, data)
          /\ db' = Apply(db, CustomerUpdate(db, data))
          /\ Goto(c, [calls[c] EXCEPT !.pc = "update.find",
                                       !.customerId = data.customerId])
       \/ /\ data.personId # Null
          /\ ~CustomerUpdateFinds(db, data)
          /\ db' = db
          /\ Throw(c, CustomerNotFound, "update.catch")
       \/ /\ data.personId = Null
          /\ db' = db
          /\ Goto(c, [calls[c] EXCEPT !.pc = "update.find",
                                       !.customerId = data.customerId])
  /\ UNCHANGED stock0

QuoteUpdateCustomer(c) ==
  /\ calls[c].pc = "update.customer"
  /\ \E data \in CustomerDtos :
       \/ /\ data.personId # Null
          /\ CustomerUpdateFinds(View(c), data)
          /\ Goto(c, [calls[c] EXCEPT !.pc = "update.find",
                                       !.customerId = data.customerId,
                                       !.pend = Append(@, CustomerUpdate(View(c), data))])
       \/ /\ data.personId # Null
          /\ ~CustomerUpdateFinds(View(c), data)
          /\ Throw(c, CustomerNotFound, "update.catch")
       \/ /\ data.personId # Null
          /\ \E e \in DbErrors : Throw(c, e, "update.catch")
       \/ /\ data.personId = Null
          /\ Goto(c, [calls[c] EXCEPT !.pc = "update.find",
                                       !.customerId = data.customerId])
  /\ UNCHANGED <<db, stock0>>

QuoteUpdateFind(c) ==
  /\ calls[c].pc = "update.find"
  /\ \E id \in QuoteIds :
       \/ /\ id \in DOMAIN View(c).quotes
          /\ Goto(c, [calls[c] EXCEPT !.pc = "update.header", !.qid = id])
       \/ /\ id \notin DOMAIN View(c).quotes
          /\ Goto(c, [calls[c] EXCEPT !.pc = "update.catch", !.err = QuoteNotFound,
                                       !.qid = id])
       \/ \E e \in DbErrors : Throw(c, e, "update.catch")
  /\ UNCHANGED <<db, stock0>>

QuoteUpdateHeader(c) ==
  /\ calls[c].pc = "update.header"
  /\ \/ \E h \in HeaderDtos :
          LET row == UpdatedQuoteRow(View(c).quotes[calls[c].qid], calls[c].customerId,
                                     h.status, h.discountType, h.discount)
          IN  Goto(c, [calls[c] EXCEPT !.pc = "update.items",
                                       !.pend = Append(@, W("updQuote", calls[c].qid, row))])
     \/ \E e \in DbErrors : Throw(c, e, "update.catch")
  /\ UNCHANGED <<db, stock0>>

QuoteUpdateItems(c) ==
  /\ calls[c].pc = "update.items"
  /\ \E hasItems \in BOOLEAN :
       \E items \in (IF hasItems THEN QuoteItemLists ELSE {<<>>}) :
         IF UpdateItemsGiven(hasItems, items)
         THEN Goto(c, [calls[c] EXCEPT !.pc = "updateItems.destroy",
                                       !.hasItems = hasItems, !.items = items])
         ELSE Goto(c, [calls[c] EXCEPT !.pc = "update.catch",
                                       !.err = ItemsRequiredOnUpdate,
                                       !.hasItems = hasItems, !.items = items])
  /\ UNCHANGED <<db, stock0>>

(* quoteItemService.updateItems: the items of the quote are removed ... *)
QuoteItemsDestroy(c) ==
  /\ calls[c].pc = "updateItems.destroy"
  /\ \/ Goto(c, [calls[c] EXCEPT !.pc = "updateItems.create", !.i = 1,
                                  !.pend = Append(@, W("clearItems", calls[c].qid, Null))])
     \/ \E e \in DbErrors : Throw(c, e, "update.catch")
  /\ UNCHANGED <<db, stock0>>

(* ... and the given list is inserted, item by item *)
QuoteItemsReinsert(c) ==
  /\ calls[c].pc = "updateItems.create"
  /\ \/ /\ calls[c].i <= Len(calls[c].items)
        /\ \/ Goto(c, [calls[c] EXCEPT
                      !.i = @ + 1,
                      !.pend = Append(@, QuoteItemCreate(calls[c].items[calls[c].i],
                                                         calls[c].qid))])
           \/ \E e \in DbErrors : Throw(c, e, "update.catch")
     \/ /\ calls[c].i > Len(calls[c].items)
        /\ Goto(c, [calls[c] EXCEPT !.pc = "update.commit"])
  /\ UNCHANGED <<db, stock0>>

QuoteUpdateCommit(c) ==
  /\ calls[c].pc = "update.commit"
  /\ db' = View(c)
  /\ Goto(c, [Return(calls[c], 200) EXCEPT !.tx = "committed", !.pend = <<>>])
  /\ UNCHANGED stock0

(* a catch block that commits what the transaction holds *)
QuoteUpdateCatchCommits(c) ==
  /\ calls[c].pc = "update.catch"
  /\ db' = View(c)
  /\ Goto(c, [calls[c] EXCEPT !.pc = "done", !.tx = "committed", !.pend = <<>>,
                              !.outcome = "thrown"])
  /\ UNCHANGED stock0

QuoteUpdateCatch(c) ==
  /\ calls[c].pc = "update.catch"
  /\ Goto(c, RollbackAndThrow(calls[c]))
  /\ UNCHANGED <<db, stock0>>

----------------------------------------------------------------------------
(* QuoteService.delete: one destroy outside any transaction; the quote's   *)
(* items go with it.                                                       *)

(* quoteModel.destroy({ where: { id } }): the number of rows removed *)
DestroyCount(st, id) == IF id \in DOMAIN st.quotes THEN 1 ELSE 0

(* the success result whatever the number of rows *)
DeleteStatusAlwaysOk(result) == 200

(* result === 1 ? 200 : 404 *)
DeleteStatus(result) == IF result = 1 THEN 200 ELSE 404

QuoteDelete(c) ==
  /\ calls[c].pc = "idle"
  /\ \E id \in QuoteIds :
       LET r == [IdleCall EXCEPT !.op = "quote.delete", !.qid = id, !.snap = db]
           result == DestroyCount(db, id)
       IN  \/ /\ db' = IF result = 1
                         THEN [db EXCEPT !.quotes = Remove(@, id), !.quoteItems[id] = <<>>]
                         ELSE db
              /\ Goto(c, Return(r, DeleteStatus(result)))
           \/ /\ db' = db
              /\ \E e \in DbErrors :
                   Goto(c, [r EXCEPT !.pc = "done", !.outcome = "thrown", !.err = e])
  /\ UNCHANGED stock0

(* QuoteService.getOne: the quote of the serial number joined with its      *)
(* items (required: true, an inner join), or the 404 result                 *)
GetOne(st, serialNumber) ==
  LET found == {q \in DOMAIN st.quotes : /\ st.quotes[q].serialNumber = serialNumber
                                         /\ Len(st.quoteItems[q]) >= 1}
  IN  IF found = {}
        THEN [status |-> 404, id |-> Null, items |-> <<>>]
        ELSE LET q == CHOOSE x \in found : TRUE
             IN  [status |-> 200, id |-> q, items |-> st.quoteItems[q]]

(* the caller has taken the result; the slot serves the next request *)
Finish(c) ==
  /\ calls[c].pc = "done"
  /\ Goto(c, IdleCall)
  /\ UNCHANGED <<db, stock0>>

----------------------------------------------------------------------------
(* StockItemService.updateQuantity, called by BillingItemService: the stock *)
(* item of (productVariantId, stockId) is looked up, then its quantity is    *)
(* written, both inside the caller's transaction.                            *)

StockKeyOf(data) == <<data.productVariantId, data.stockId>>

NewQuantity(quantity, operation, n) ==
  IF operation = "ADD" THEN quantity + n ELSE quantity - n

StockFind(c) ==
  /\ calls[c].pc = "stock.find"
  /\ LET k == StockKeyOf(calls[c].data)
     IN  \/ /\ k \in DOMAIN View(c).stock
            /\ Goto(c, [calls[c] EXCEPT !.pc = "stock.write", !.read = View(c).stock[k]])
         \/ /\ k \notin DOMAIN View(c).stock
            /\ Throw(c, StockItemNotFound, "billing.catch")
         \/ \E e \in DbErrors : Throw(c, e, "billing.catch")
  /\ UNCHANGED <<db, stock0>>

StockWrite(c) ==
  /\ calls[c].pc = "stock.write"
  /\ \/ Goto(c, [calls[c] EXCEPT
                !.pc = "item.return",
                !.subs = IF calls[c].operation = "SUBTRACT" THEN @ + 1 ELSE @,
                !.pend = Append(@, W("setStock", StockKeyOf(calls[c].data),
                                     NewQuantity(calls[c].read, calls[c].operation,
                                                 calls[c].data.quantity)))])
     \/ \E e \in DbErrors : Throw(c, e, "billing.catch")
  /\ UNCHANGED <<db, stock0>>

----------------------------------------------------------------------------
(* BillingItemService.create and cancel *)

(* create passing the operation of a restock *)
CreateStockOperationAdd == "ADD"

(* the operation create passes to updateQuantity *)
CreateStockOperation == "SUBTRACT"

(* cancel passing the operation of a sale *)
CancelStockOperationSubtract == "SUBTRACT"

(* the operation cancel passes to updateQuantity *)
CancelStockOperation == "ADD"

(* the stockId argument dropped *)
CancelStockDataAsCreated(billingItemData, stockId) == billingItemData

(* { ...billingItemData, stockId } *)
CancelStockData(billingItemData, stockId) == [billingItemData EXCEPT !.stockId = stockId]

(* the flag ignored: every creation deducts *)
DeductsAlways(deductFromStock) == TRUE

(* if (!deductFromStock) return; *)
Deducts(deductFromStock) == deductFromStock

BillingItemCreate(c) ==
  /\ calls[c].pc = "item.create"
  /\ \/ Goto(c, [calls[c] EXCEPT
                !.pc = IF Deducts(calls[c].deduct) THEN "stock.find" ELSE "item.return",
                !.operation = CreateStockOperation,
                !.pend = Append(@, W("addBillingItem", calls[c].bid, calls[c].data))])
     \/ \E e \in DbErrors : Throw(c, e, "billing.catch")
  /\ UNCHANGED <<db, stock0>>

BillingItemCancel(c) ==
  /\ calls[c].pc = "item.cancel"
  /\ Goto(c, [calls[c] EXCEPT
             !.pc = "stock.find",
             !.operation = CancelStockOperation,
             !.data = CancelStockData(calls[c].data, calls[c].stockId)])
  /\ UNCHANGED <<db, stock0>>

----------------------------------------------------------------------------
(* The billing workflow that calls BillingItemService: a billing and its   *)
(* items in one transaction; a cancellation of all the items of a billing  *)
(* in one transaction.                                                     *)

FreeBillingIds == BillingIds \ (DOMAIN db.billings \cup {calls[d].bid : d \in Slots})

BillingCreateWith(c, lists, flags) ==
  /\ calls[c].pc = "idle"
  /\ FreeBillingIds # {}
  /\ \E items \in lists, deduct \in flags :
       LET id == CHOOSE b \in FreeBillingIds : TRUE
       IN  Goto(c, [IdleCall EXCEPT
                      !.op = "billing.create", !.pc = "billing.items", !.tx = "open",
                      !.bid = id, !.items = items, !.i = 1, !.deduct = deduct,
                      !.snap = db,
                      !.pend = <<W("insBilling", id,
                                   [status |-> "PAID", deducted |-> deduct,
                                    cancels |-> 0, before |-> db.stock])>>])
  /\ UNCHANGED <<db, stock0>>

BillingCreateBegin(c) == BillingCreateWith(c, BillingItemLists, BOOLEAN)

(* a sale: a billing of one item, with deduction *)
SaleBegin(c) == BillingCreateWith(c, [1..1 -> BillingItemDtos], {TRUE})

BillingCancelBegin(c) ==
  /\ calls[c].pc = "idle"
  /\ \E id \in DOMAIN db.billings, stockId \in StockIds :
       /\ db.billings[id].cancels < MaxCancels
       /\ Goto(c, [IdleCall EXCEPT
                      !.op = "billing.cancel", !.pc = "billing.items", !.tx = "open",
                      !.bid = id, !.items = db.billingItems[id], !.i = 1,
                      !.stockId = stockId, !.snap = db,
                      !.pend = <<W("updBilling", id,
                                   [db.billings[id] EXCEPT !.status = "CANCELED",
                                                           !.cancels = @ + 1])>>])
  /\ UNCHANGED <<db, stock0>>

(* the loop over the items: the next call of create or cancel, or the commit *)
BillingItems(c) ==
  /\ calls[c].pc = "billing.items"
  /\ IF calls[c].i <= Len(calls[c].items)
       THEN Goto(c, [calls[c] EXCEPT
                       !.pc = IF calls[c].op = "billing.create"
                              THEN "item.create" ELSE "item.cancel",
                       !.data = calls[c].items[calls[c].i],
                       !.itemPre = View(c).stock, !.subs = 0])
       ELSE Goto(c, [calls[c] EXCEPT !.pc = "billing.commit"])
  /\ UNCHANGED <<db, stock0>>

(* create or cancel has returned to the loop *)
BillingItemReturn(c) ==
  /\ calls[c].pc = "item.return"
  /\ Goto(c, [calls[c] EXCEPT !.pc = "billing.items", !.i = @ + 1])
  /\ UNCHANGED <<db, stock0>>

BillingCommit(c) ==
  /\ calls[c].pc = "billing.commit"
  /\ db' = View(c)
  /\ Goto(c, [Return(calls[c], 200) EXCEPT !.tx = "committed", !.pend = <<>>])
  /\ UNCHANGED stock0

BillingCatch(c) ==
  /\ calls[c].pc = "billing.catch"
  /\ Goto(c, RollbackAndThrow(calls[c]))
  /\ UNCHANGED <<db, stock0>>

----------------------------------------------------------------------------
(* BillingItemService.getMonthlySales.  The numbers of the query are exact *)
(* fractions num / den; a value of SQL may be NULL.                        *)

Frac(n, d) == [null |-> FALSE, num |-> n, den |-> d]
SqlNull == [null |-> TRUE, num |-> 0, den |-> 1]
Whole(n) == Frac(n, 1)
RECURSIVE Gcd(_, _)
Gcd(a, b) == IF b = 0 THEN a ELSE Gcd(b, a % b)
(* n / d in lowest terms, for d above zero *)
Lowest(n, d) ==
  LET g == Gcd(IF n < 0 THEN -n ELSE n, d) IN Frac(n \div g, d \div g)
FracAdd(a, b) ==
  IF a.null \/ b.null THEN SqlNull ELSE Lowest(a.num * b.den + b.num * a.den, a.den * b.den)
FracSub(a, b) ==
  IF a.null \/ b.null THEN SqlNull ELSE Lowest(a.num * b.den - b.num * a.den, a.den * b.den)
FracMul(a, b) ==
  IF a.null \/ b.null THEN SqlNull ELSE Lowest(a.num * b.num, a.den * b.den)
(* a / b, for b other than zero *)
FracDiv(a, b) ==
  IF a.null \/ b.null THEN SqlNull
  ELSE IF b.num > 0 THEN Lowest(a.num * b.den, a.den * b.num)
  ELSE Lowest(-(a.num * b.den), -(a.den * b.num))
FracEq(a, b) == a.null = b.null /\ a.num * b.den = b.num * a.den

(* NULLIF(x, 0) *)
NullIfZero(x) == IF ~x.null /\ x.num = 0 THEN SqlNull ELSE x

(* SUM(...): the NULLs are skipped; NULL when nothing is left *)
RECURSIVE SqlSum(_)
SqlSum(xs) ==
  IF xs = <<>> THEN SqlNull
  ELSE LET rest == SqlSum(Tail(xs))
       IN  IF Head(xs).null THEN rest
           ELSE IF rest.null THEN Head(xs) ELSE FracAdd(Head(xs), rest)

(* Number(totalSales): Number(null) is 0 *)
NumberOf(x) == IF x.null THEN Whole(0) ELSE x

(* Instants are hours counted from 1 January 00:00 of the current year, a  *)
(* year of 365 days.                                                       *)
HoursOfDay == 24
DaysOfYear == 365
(* new Date(currentYear, 0, 1) *)
StartOfYear == 0
(* new Date(currentYear + 1, 0, 0): day 0 of next January, 31 December 00:00 *)
EndOfYear == (DaysOfYear - 1) * HoursOfDay
DaysBeforeMonth == <<0, 31, 59, 90, 120, 151, 181, 212, 243, 273, 304, 334>>
(* DATE_PART('month', createdDate) *)
MonthOf(h) ==
  CHOOSE m \in 1..12 :
    /\ DaysBeforeMonth[m] * HoursOfDay <= h
    /\ m = 12 \/ h < DaysBeforeMonth[m + 1] * HoursOfDay
CreatedDates ==
  {-1, StartOfYear, 40 * HoursOfDay, EndOfYear, EndOfYear + 12, DaysOfYear * HoursOfDay}

BillingStatus == {"PAID", "CANCELED"}
Currencies == {"COP", "USD"}
Prices == {0, 100}
Discounts == {0, 10, 50}
SalesItemDtos == [totalPrice : Prices, variantDeleted : BOOLEAN]
SalesItemLists == UNION {[1..n -> SalesItemDtos] : n \in 1..MaxItems}

RECURSIVE SumTotalPrice(_)
SumTotalPrice(items) ==
  IF items = <<>> THEN 0 ELSE Head(items).totalPrice + SumTotalPrice(Tail(items))

(* the billings of the report: the subtotal is the sum of the items, and a *)
(* billing without discount has no discount type                           *)
SalesBillings ==
  {[status |-> st, createdDate |-> t, currency |-> cur, discountType |-> h.ty,
    discount |-> h.d, subtotal |-> SumTotalPrice(items), items |-> items] :
     st \in BillingStatus, t \in CreatedDates, cur \in Currencies,
     h \in {x \in [ty : DiscountTypeInputs, d : Discounts] : x.d = 0 => x.ty = Null},
     items \in SalesItemLists}

(* the fixed discount taken off every item *)
CaseAmountDiscountPerItem(b, item) ==
  CASE b.discountType = "PERCENTAGE" ->
         FracMul(Whole(item.totalPrice),
                 FracSub(Whole(1), FracDiv(Whole(b.discount), Whole(100))))
    [] b.discountType = "FIXED" -> Whole(item.totalPrice - b.discount)
    [] OTHER -> Whole(item.totalPrice)

(* the CASE expression of the query, for one billing item of a billing *)
CaseAmount(b, item) ==
  LET totalPrice == Whole(item.totalPrice)
  IN  CASE b.discountType = "PERCENTAGE" ->
             FracMul(totalPrice, FracSub(Whole(1), FracDiv(Whole(b.discount), Whole(100))))
        [] b.discountType = "FIXED" ->
             FracMul(totalPrice,
                     FracSub(Whole(1), FracDiv(Whole(b.discount),
                                               NullIfZero(Whole(b.subtotal)))))
        [] OTHER -> totalPrice

(* where: createdDate BETWEEN startOfYear AND endOfYear, status PAID *)
InReport(b) ==
  /\ StartOfYear <= b.createdDate /\ b.createdDate <= EndOfYear
  /\ b.status = "PAID"

(* the rows of the join: the items whose product variant is not deleted *)
RECURSIVE JoinedAmounts(_, _)
JoinedAmounts(b, items) ==
  IF items = <<>> THEN <<>>
  ELSE (IF Head(items).variantDeleted THEN <<>> ELSE <<CaseAmount(b, Head(items))>>)
       \o JoinedAmounts(b, Tail(items))

RECURSIVE GroupAmounts(_, _, _, _)
GroupAmounts(st, ids, month, currency) ==
  IF ids = {} THEN <<>>
  ELSE LET id == CHOOSE x \in ids : TRUE
           b == st.billings[id]
       IN  (IF InReport(b) /\ MonthOf(b.createdDate) = month /\ b.currency = currency
              THEN JoinedAmounts(b, b.items) ELSE <<>>)
           \o GroupAmounts(st, ids \ {id}, month, currency)

(* the months that have a row: the groups of the query *)
ReportMonths(st) ==
  {MonthOf(st.billings[id].createdDate) :
     id \in {x \in DOMAIN st.billings :
               /\ InReport(st.billings[x])
               /\ JoinedAmounts(st.billings[x], st.billings[x].items) # <<>>}}

(* salesWithMonthNames: for each month of the query its COP and USD totals, *)
(* 0 for a currency without a group                                         *)
MonthlySales(st) ==
  [m \in ReportMonths(st) |->
     [cur \in Currencies |->
        NumberOf(SqlSum(GroupAmounts(st, DOMAIN st.billings, m, cur)))]]

GetMonthlySales(c) ==
  /\ calls[c].pc = "idle"
  /\ \/ Goto(c, [Return([IdleCall EXCEPT !.op = "sales.monthly"], 200)
                   EXCEPT !.result = MonthlySales(db)])
     \/ \E e \in DbErrors :
          Goto(c, [IdleCall EXCEPT !.op = "sales.monthly", !.pc = "done",
                                   !.outcome = "thrown", !.err = e])
  /\ UNCHANGED <<db, stock0>>

----------------------------------------------------------------------------
(* UserService.register, update and delete.  A person row holds the dni of *)
(* the person; a user row, kept under the id of its person, the email.     *)
(* Each of the two is unique in its table.                                 *)

UserDtos == [personId : PersonIds, dni : Dnis, email : Emails]

(* the dni of the persons other than p, the email of the users other than p *)
OtherDnis(st, p) == {st.persons[x] : x \in DOMAIN st.persons \ {p}}
OtherEmails(st, p) == {st.users[x] : x \in DOMAIN st.users \ {p}}

(* const transaction = await sequelize.transaction() *)
UserBegin(c, op, pc, userData) ==
  Goto(c, [IdleCall EXCEPT !.op = op, !.pc = pc, !.tx = "open",
                           !.userData = userData, !.snap = db])

UserRegisterBegin(c) ==
  /\ calls[c].pc = "idle"
  /\ PersonIds \ DOMAIN db.persons # {}
  /\ \E dni \in Dnis, email \in Emails :
       UserBegin(c, "user.register", "register.person",
                 [personId |-> Null, dni |-> dni, email |-> email])
  /\ UNCHANGED <<db, stock0>>

(* personModel.create: resolves to the new row, or fails *)
UserRegisterPerson(c) ==
  /\ calls[c].pc = "register.person"
  /\ LET dni == calls[c].userData.dni
         id == CHOOSE x \in PersonIds \ DOMAIN View(c).persons : TRUE
     IN  \/ /\ dni \notin OtherDnis(View(c), Null)
            /\ Goto(c, [calls[c] EXCEPT !.pc = "register.user",
                                        !.userData.personId = id,
                                        !.pend = Append(@, W("insPerson", id, dni))])
         \/ /\ dni \in OtherDnis(View(c), Null)
            /\ Throw(c, UniqueViolation, "user.catch")
         \/ Throw(c, OtherDbError, "user.catch")
  /\ UNCHANGED <<db, stock0>>

(* userModel.create *)
UserRegisterUser(c) ==
  /\ calls[c].pc = "register.user"
  /\ LET email == calls[c].userData.email
         id == calls[c].userData.personId
     IN  \/ /\ email \notin OtherEmails(View(c), Null)
            /\ Goto(c, [calls[c] EXCEPT !.pc = "register.role",
                                        !.pend = Append(@, W("insUser", id, email))])
         \/ /\ email \in OtherEmails(View(c), Null)
            /\ Throw(c, UniqueViolation, "user.catch")
         \/ Throw(c, OtherDbError, "user.catch")
  /\ UNCHANGED <<db, stock0>>

(* await this.getRoleName(roleId), which throws again what it catches *)
UserRegisterRole(c) ==
  /\ calls[c].pc = "register.role"
  /\ \/ Goto(c, [calls[c] EXCEPT !.pc = "register.commit"])
     \/ Throw(c, OtherDbError, "user.catch")
  /\ UNCHANGED <<db, stock0>>

UserRegisterCommit(c) ==
  /\ calls[c].pc = "register.commit"
  /\ db' = View(c)
  /\ Goto(c, [Return(calls[c], 201) EXCEPT !.tx = "committed", !.pend = <<>>])
  /\ UNCHANGED stock0

UserUpdateBegin(c) ==
  /\ calls[c].pc = "idle"
  /\ \E userData \in UserDtos : UserBegin(c, "user.update", "update.findPerson", userData)
  /\ UNCHANGED <<db, stock0>>

(* personModel.findByPk(personId), outside the transaction; read is 1 when *)
(* the person is found                                                     *)
UserUpdateFindPerson(c) ==
  /\ calls[c].pc = "update.findPerson"
  /\ \/ Goto(c, [calls[c] EXCEPT
                   !.pc = "update.findUser",
                   !.read = IF calls[c].userData.personId \in DOMAIN db.persons
                              THEN 1 ELSE 0])
     \/ Throw(c, OtherDbError, "user.catch")
  /\ UNCHANGED <<db, stock0>>

(* userModel.findOne({ where: { personId } }), then *)
(* if (!userToUpdate || !personToUpdate) return { status: 404, ... } *)
UserUpdateFindUser(c) ==
  /\ calls[c].pc = "update.findUser"
  /\ \/ IF calls[c].userData.personId \notin DOMAIN db.users \/ calls[c].read = 0
          THEN Goto(c, Return(calls[c], 404))
          ELSE Goto(c, [calls[c] EXCEPT !.pc = "update.person"])
     \/ Throw(c, OtherDbError, "user.catch")
  /\ UNCHANGED <<db, stock0>>

(* personToUpdate.update({ fullName, dni }, { transaction }) *)
UserUpdatePerson(c) ==
  /\ calls[c].pc = "update.person"
  /\ LET u == calls[c].userData
     IN  \/ /\ u.dni \notin OtherDnis(View(c), u.personId)
            /\ Goto(c, [calls[c] EXCEPT !.pc = "update.user",
                                        !.pend = Append(@, W("updPerson", u.personId, u.dni))])
         \/ /\ u.dni \in OtherDnis(View(c), u.personId)
            /\ Throw(c, UniqueViolation, "user.catch")
         \/ Throw(c, OtherDbError, "user.catch")
  /\ UNCHANGED <<db, stock0>>

(* userToUpdate.update({ roleId, shopId, email, password }, { transaction }) *)
UserUpdateUser(c) ==
  /\ calls[c].pc = "update.user"
  /\ LET u == calls[c].userData
     IN  \/ /\ u.email \notin OtherEmails(View(c), u.personId)
            /\ Goto(c, [calls[c] EXCEPT !.pc = "update.role",
                                        !.pend = Append(@, W("updUser", u.personId, u.email))])
         \/ /\ u.email \in OtherEmails(View(c), u.personId)
            /\ Throw(c, UniqueViolation, "user.catch")
         \/ Throw(c, OtherDbError, "user.catch")
  /\ UNCHANGED <<db, stock0>>

UserUpdateRole(c) ==
  /\ calls[c].pc = "update.role"
  /\ \/ Goto(c, [calls[c] EXCEPT !.pc = "update.commit"])
     \/ Throw(c, OtherDbError, "user.catch")
  /\ UNCHANGED <<db, stock0>>

UserUpdateCommit(c) ==
  /\ calls[c].pc = "update.commit"
  /\ db' = View(c)
  /\ Goto(c, [Return(calls[c], 200) EXCEPT !.tx = "committed", !.pend = <<>>])
  /\ UNCHANGED stock0

UserDeleteBegin(c) ==
  /\ calls[c].pc = "idle"
  /\ \E personId \in PersonIds :
       UserBegin(c, "user.delete", "delete.person",
                 [personId |-> personId, dni |-> Null, email |-> Null])
  /\ UNCHANGED <<db, stock0>>

(* personModel.destroy({ where: { id: personId }, transaction }) *)
UserDeletePerson(c) ==
  /\ calls[c].pc = "delete.person"
  /\ LET id == calls[c].userData.personId
     IN  \/ Goto(c, [calls[c] EXCEPT
                       !.pc = "delete.user",
                       !.pend = IF id \in DOMAIN View(c).persons
                                  THEN Append(@, W("delPerson", id, Null)) ELSE @])
         \/ \E e \in DbErrors : Throw(c, e, "user.catch")
  /\ UNCHANGED <<db, stock0>>

(* userDeleted = userModel.destroy({ where: { personId }, transaction }): *)
(* the commit when it is 1, else the result 404                          *)
UserDeleteUser(c) ==
  /\ calls[c].pc = "delete.user"
  /\ LET id == calls[c].userData.personId
         userDeleted == IF id \in DOMAIN View(c).users THEN 1 ELSE 0
     IN  \/ IF userDeleted = 1
              THEN Goto(c, [calls[c] EXCEPT !.pc = "delete.commit", !.read = userDeleted,
                                            !.pend = Append(@, W("delUser", id, Null))])
              ELSE Goto(c, Return([calls[c] EXCEPT !.read = userDeleted], 404))
         \/ \E e \in DbErrors : Throw(c, e, "user.catch")
  /\ UNCHANGED <<db, stock0>>

UserDeleteCommit(c) ==
  /\ calls[c].pc = "delete.commit"
  /\ db' = View(c)
  /\ Goto(c, [Return(calls[c], 200) EXCEPT !.tx = "committed", !.pend = <<>>])
  /\ UNCHANGED stock0

(* the message of the error when the catch block throws it again *)
UserCatchMessage(op, e) ==
  IF e.code = "23505" /\ op = "user.register"
    THEN "Ya existe un usuario con este email o numero de documento"
  ELSE IF e.code = "23505" /\ op = "user.update"
    THEN "Ya existe un usuario con este numero de documento"
  ELSE e.msg

(* catch (error) { await transaction.rollback(); ...; throw error } *)
UserCatch(c) ==
  /\ calls[c].pc = "user.catch"
  /\ Goto(c, [RollbackAndThrow(calls[c]) EXCEPT
                !.err.msg = UserCatchMessage(calls[c].op, calls[c].err)])
  /\ UNCHANGED <<db, stock0>>

----------------------------------------------------------------------------
(* The try / catch of every service method and route handler.  A call runs *)
(* the try block, where a database access may fail, and then the catch     *)
(* block of its operation, which rolls the transaction back (where there   *)
(* is one), may rewrite the message of the error, and ends the call.       *)

CityService == {"CityService.search", "CityService.getById"}
UserService ==
  {"UserService.getAll", "UserService.getRoles", "UserService.register",
   "UserService.update", "UserService.delete", "UserService.setPermissions",
   "UserService.getAssignablePermissions", "UserService.getRoleName"}
ProductVariantService ==
  {"ProductVariantService.getAll", "ProductVariantService.create",
   "ProductVariantService.update", "ProductVariantService.delete",
   "ProductVariantService.searchProductVariantStockInfo",
   "ProductVariantService.count"}
ProductCategoryController ==
  {"ProductCategoryController.create", "ProductCategoryController.getAll",
   "ProductCategoryController.update", "ProductCategoryController.delete"}
BillingItemService ==
  {"BillingItemService.create", "BillingItemService.cancel",
   "BillingItemService.getMonthlySales", "BillingItemService.getTopSalesProducts",
   "BillingItemService.getGroupByCurrencyAndProductCategoryGroup"}
QuoteService ==
  {"QuoteService.getAll", "QuoteService.getOne", "QuoteService.create",
   "QuoteService.update", "QuoteService.delete"}
Router == {"router.ping"}

Operations ==
  CityService \cup UserService \cup ProductVariantService
    \cup ProductCategoryController \cup BillingItemService \cup QuoteService \cup Router

(* the operations that open a transaction of their own *)
Transactional ==
  {"QuoteService.create", "QuoteService.update", "UserService.register",
   "UserService.update", "UserService.delete"}

(* how the catch block ends: throw error, next(error), return of a result, *)
(* or console.error alone                                                  *)
CatchBlock(op) ==
  CASE op \in ProductCategoryController -> "next"
    [] op = "UserService.setPermissions" -> "result"
    [] op = "router.ping" -> "log"
    [] OTHER -> "throw"

DuplicateUser == "Ya existe un usuario con este email o numero de documento"
DuplicateDni == "Ya existe un usuario con este numero de documento"

(* the message of the error when the catch block is done with it *)
CatchMessage(op, e) ==
  IF e.code = "23505" /\ op = "UserService.register" THEN DuplicateUser
  ELSE IF e.code = "23505" /\ op = "UserService.update" THEN DuplicateDni
  ELSE e.msg

HandlerBegin(c) ==
  /\ calls[c].pc = "idle"
  /\ \E op \in Operations :
       Goto(c, [IdleCall EXCEPT !.op = op, !.pc = "handler.try",
                                !.tx = IF op \in Transactional THEN "open" ELSE "none"])
  /\ UNCHANGED <<db, stock0>>

HandlerTry(c) ==
  /\ calls[c].pc = "handler.try"
  /\ \/ Goto(c, [Return(calls[c], 200) EXCEPT
                   !.tx = IF calls[c].tx = "open" THEN "committed" ELSE @])
     \/ \E e \in DbErrors : Throw(c, e, "handler.catch")
  /\ UNCHANGED <<db, stock0>>

HandlerCatch(c) ==
  /\ calls[c].pc = "handler.catch"
  /\ LET op == calls[c].op
         r == [calls[c] EXCEPT
                 !.pc = "done",
                 !.tx = IF op \in Transactional THEN "rolledback" ELSE @,
                 !.err = [@ EXCEPT !.msg = CatchMessage(op, calls[c].err)]]
     IN  Goto(c, CASE CatchBlock(op) = "throw" -> [r EXCEPT !.outcome = "thrown"]
                   [] CatchBlock(op) = "next" -> [r EXCEPT !.outcome = "next"]
                   [] CatchBlock(op) = "result" ->
                        [r EXCEPT !.outcome = "returned", !.status = 500]
                   [] CatchBlock(op) = "log" -> [r EXCEPT !.outcome = "unanswered"])
  /\ UNCHANGED <<db, stock0>>

----------------------------------------------------------------------------
(* Specifications *)

(* the first quote of the store *)
QuoteCreateFirst(c) == DOMAIN db.quotes = {} /\ QuoteCreateBegin(c)

QuoteStep(c) ==
  \/ QuoteCreateFirst(c) \/ QuoteCreateCheck(c) \/ QuoteCreateCustomer(c)
  \/ QuoteCreateShop(c) \/ QuoteCreateSerial(c) \/ QuoteCreateSave(c)
  \/ QuoteCreateItems(c) \/ QuoteCreateCommit(c) \/ QuoteCreateCatch(c)
  \/ QuoteUpdateBegin(c) \/ QuoteUpdateCustomer(c) \/ QuoteUpdateFind(c)
  \/ QuoteUpdateHeader(c) \/ QuoteUpdateItems(c) \/ QuoteItemsDestroy(c)
  \/ QuoteItemsReinsert(c) \/ QuoteUpdateCommit(c) \/ QuoteUpdateCatch(c)
  \/ QuoteDelete(c) \/ Finish(c)

Init ==
  /\ db = [EmptyDb EXCEPT !.stock = [k \in StockKeys |-> MaxQty]]
  /\ calls = [c \in Slots |-> IdleCall]
  /\ stock0 = db.stock

(* requests served one after the other; one quote at a time is followed    *)
(* from its creation through its updates to its deletion                   *)
Next == QuoteStep(1)

Spec == Init /\ [][Next]_vars

(* the stock tables a billing run starts from: every stock item with the   *)
(* same quantity, one of them possibly missing                             *)
InitialStocks ==
  {[k \in K |-> n] : K \in {StockKeys, StockKeys \ {<<"v1", "s2">>}}, n \in 1..MaxQty}

InitBilling ==
  /\ \E st \in InitialStocks : db = [EmptyDb EXCEPT !.stock = st]
  /\ calls = [c \in Slots |-> IdleCall]
  /\ stock0 = db.stock

(* the steps of a billing request once begun *)
BillingStep(c) ==
  \/ BillingItems(c) \/ BillingItemCreate(c) \/ StockFind(c) \/ StockWrite(c)
  \/ BillingItemReturn(c) \/ BillingCommit(c) \/ BillingCatch(c) \/ Finish(c)

(* the first billing of a run *)
BillingCreateFirst(c) == DOMAIN db.billings = {} /\ BillingCreateBegin(c)

(* one billing followed from its creation through its cancellations *)
NextBilling ==
  \/ BillingCreateFirst(1) \/ BillingCancelBegin(1) \/ BillingItemCancel(1)
  \/ BillingStep(1)

SpecBilling == InitBilling /\ [][NextBilling]_vars

(* sales by requests that interleave *)
NextConcurrent == \E c \in Slots : SaleBegin(c) \/ BillingStep(c)

SpecConcurrent == InitBilling /\ [][NextConcurrent]_vars

(* requests on quotes in a store without billings, and the creation of a   *)
(* billing in a store without quotes                                       *)
QuoteOnly(c) ==
  /\ DOMAIN db.billings = {} /\ calls[c].op # "billing.create"
  /\ QuoteStep(c)
BillingOnly(c) ==
  /\ DOMAIN db.quotes = {} /\ calls[c].op \in {"none", "billing.create"}
  /\ (BillingCreateFirst(c) \/ BillingStep(c))

NextStock == QuoteOnly(1) \/ BillingOnly(1)

SpecStock == Init /\ [][NextStock]_vars

(* a create of one item, without customer data, of a PENDING quote without *)
(* discount                                                                *)
PlainCreateBegin(c) ==
  QuoteCreateBegin(c) /\ calls'[c].hasItems /\ Len(calls'[c].items) = 1
PlainCreateCustomer(c) ==
  /\ QuoteCreateCustomer(c)
  /\ calls'[c].customerData = IdleCall.customerData
PlainCreateSave(c) ==
  /\ QuoteCreateSave(c)
  /\ calls'[c].pc = "create.items" =>
       LET row == calls'[c].pend[Len(calls'[c].pend)].val
       IN  row.status = "PENDING" /\ row.discount = Missing /\ row.discountType = Null

(* creations and deletions of quotes by requests that interleave *)
NextSerial ==
  \E c \in Slots :
    \/ PlainCreateBegin(c) \/ QuoteCreateCheck(c) \/ PlainCreateCustomer(c)
    \/ QuoteCreateShop(c) \/ QuoteCreateSerial(c) \/ PlainCreateSave(c)
    \/ QuoteCreateItems(c) \/ QuoteCreateCommit(c) \/ QuoteCreateCatch(c)
    \/ QuoteDelete(c) \/ Finish(c)

SpecSerial == Init /\ [][NextSerial]_vars

(* the store of a report: one billing *)
InitSales ==
  /\ \E b \in SalesBillings : db = [EmptyDb EXCEPT !.billings = [id \in {"b1"} |-> b]]
  /\ calls = [c \in Slots |-> IdleCall]
  /\ stock0 = db.stock

NextSales == GetMonthlySales(1) \/ Finish(1)

SpecSales == InitSales /\ [][NextSales]_vars

(* requests to any operation, each run to its end or to its catch block *)
NextHandlers ==
  \E c \in Slots : HandlerBegin(c) \/ HandlerTry(c) \/ HandlerCatch(c) \/ Finish(c)

SpecHandlers == Init /\ [][NextHandlers]_vars

(* the persons of the store at the start: none, or one without a user *)
InitUsers ==
  /\ \E ps \in {NoRows, [p \in {"p1"} |-> "d1"]} :
       db = [EmptyDb EXCEPT !.persons = ps, !.stock = [k \in StockKeys |-> MaxQty]]
  /\ calls = [c \in Slots |-> IdleCall]
  /\ stock0 = db.stock

UserStep(c) ==
  \/ UserRegisterBegin(c) \/ UserRegisterPerson(c) \/ UserRegisterUser(c)
  \/ UserRegisterRole(c) \/ UserRegisterCommit(c)
  \/ UserUpdateBegin(c) \/ UserUpdateFindPerson(c) \/ UserUpdateFindUser(c)
  \/ UserUpdatePerson(c) \/ UserUpdateUser(c) \/ UserUpdateRole(c)
  \/ UserUpdateCommit(c)
  \/ UserDeleteBegin(c) \/ UserDeletePerson(c) \/ UserDeleteUser(c)
  \/ UserDeleteCommit(c) \/ UserCatch(c)

(* requests to the operations that open a transaction, served one after *)
(* the other                                                            *)
NextTransactions == QuoteStep(1) \/ UserStep(1)

SpecTransactions == InitUsers /\ [][NextTransactions]_vars

----------------------------------------------------------------------------
(* Claims on QuoteService, under Spec *)

IsCall(c, op) == calls[c].op = op
Done(c) == calls[c].pc = "done"
Returned(c, st) == Done(c) /\ calls[c].outcome = "returned" /\ calls[c].status = st
Thrown(c) == Done(c) /\ calls[c].outcome = "thrown"
EmptyItemsGiven(c) == calls[c].hasItems /\ calls[c].items = <<>>

(* C1: QuoteService.create with an empty item list ends in the thrown     *)
(* validation error, its transaction rolled back, and it issues and        *)
(* persists no write at all: the store is what it was before the call.     *)
C1_EmptyItemsCreateFails ==
  \A c \in Slots :
    (IsCall(c, "quote.create") /\ EmptyItemsGiven(c)) =>
      /\ calls[c].pend = <<>>
      /\ db = calls[c].snap
      /\ Done(c) => /\ Thrown(c)
                    /\ calls[c].err = ItemsRequiredOnCreate
                    /\ calls[c].tx = "rolledback"

C1_Witness ==
  \E c \in Slots :
    /\ IsCall(c, "quote.create") /\ EmptyItemsGiven(c) /\ Thrown(c)
    /\ calls[c].err = ItemsRequiredOnCreate

(* C2: QuoteService.create is all-or-nothing.  While it runs and when it   *)
(* ends in anything but the 201 result, the store is what it was before    *)
(* the call; a thrown failure is the error that occurred, after a          *)
(* rollback; after the 201 result the quote has all the requested items.   *)
C2_CreateAllOrNothing ==
  \A c \in Slots :
    IsCall(c, "quote.create") =>
      /\ ~Returned(c, 201) => db = calls[c].snap
      /\ Thrown(c) => calls[c].tx = "rolledback" /\ calls[c].err # NoErr
      /\ Returned(c, 201) =>
           /\ calls[c].qid \in DOMAIN db.quotes
           /\ db.quoteItems[calls[c].qid] = calls[c].items
           /\ calls[c].qid \notin DOMAIN calls[c].snap.quotes

(* the second item failed, after a new customer, the header and the first  *)
(* item had been written in the transaction                                *)
C2_Witness ==
  \E c \in Slots :
    /\ IsCall(c, "quote.create") /\ Thrown(c)
    /\ calls[c].err \in DbErrors
    /\ calls[c].qid # Null /\ calls[c].i = 2
    /\ calls[c].customerId # Null
    /\ calls[c].customerId \notin DOMAIN db.customers

(* C3: a QuoteService.update that fails leaves the store (quote headers,   *)
(* quote items, customers, stock quantities) as it was before the call.    *)
C3_FailedUpdateChangesNothing ==
  \A c \in Slots :
    IsCall(c, "quote.update") =>
      /\ Done(c) => Thrown(c) \/ Returned(c, 200)
      /\ Thrown(c) => /\ db = calls[c].snap
                      /\ calls[c].tx = "rolledback"
                      /\ calls[c].err # NoErr

(* updateItems failed on the second item of the replacement *)
C3_Witness ==
  \E c \in Slots :
    /\ IsCall(c, "quote.update") /\ Thrown(c)
    /\ calls[c].err \in DbErrors
    /\ calls[c].qid \in DOMAIN db.quotes
    /\ Len(calls[c].items) = 2 /\ calls[c].i = 2
    /\ Len(db.quoteItems[calls[c].qid]) = 1

(* C7: every stored quote has at least one line item. *)
C7_QuoteHasItems ==
  \A q \in DOMAIN db.quotes : Len(db.quoteItems[q]) >= 1

(* a completed update has replaced the items of a quote *)
C7_Witness ==
  \E c \in Slots :
    /\ IsCall(c, "quote.update") /\ Returned(c, 200)
    /\ db.quoteItems[calls[c].qid] # calls[c].snap.quoteItems[calls[c].qid]
    /\ Len(db.quoteItems[calls[c].qid]) >= 1

(* C8: a stored quote whose discount is zero (or was never given) has no   *)
(* discount type.                                                          *)
C8_ZeroDiscountNullType ==
  \A q \in DOMAIN db.quotes :
    ~GreaterThanZero(db.quotes[q].discount) => db.quotes[q].discountType = Null

(* an update to discount zero has cleared the discount type of a quote *)
C8_Witness ==
  \E c \in Slots :
    /\ IsCall(c, "quote.update") /\ Returned(c, 200)
    /\ calls[c].snap.quotes[calls[c].qid].discountType = "FIXED"
    /\ db.quotes[calls[c].qid].discount = Num(0)
    /\ db.quotes[calls[c].qid].discountType = Null

(* C9: an update of a quote that was ACCEPTED or CANCELED leaves its       *)
(* status as it was.                                                       *)
C9_TerminalStatusKept ==
  \A c \in Slots :
    (IsCall(c, "quote.update") /\ Returned(c, 200)
       /\ calls[c].snap.quotes[calls[c].qid].status \in {"ACCEPTED", "CANCELED"}) =>
      db.quotes[calls[c].qid].status = calls[c].snap.quotes[calls[c].qid].status

(* C11: a QuoteService.update whose id matches no quote ends in the thrown  *)
(* not-found error after a rollback, and the store is what it was before   *)
(* the call: the customer update issued before the lookup is not stored.   *)
QuoteSoughtMissing(c) ==
  /\ IsCall(c, "quote.update") /\ calls[c].qid # Null
  /\ calls[c].qid \notin DOMAIN calls[c].snap.quotes

C11_UpdateNotFoundPersistsNothing ==
  \A c \in Slots :
    QuoteSoughtMissing(c) =>
      /\ db = calls[c].snap
      /\ calls[c].err = QuoteNotFound
      /\ Done(c) => Thrown(c) /\ calls[c].tx = "rolledback"

(* the rollback has undone the update of a stored customer *)
C11_Witness ==
  \E c \in Slots :
    /\ QuoteSoughtMissing(c) /\ Thrown(c)
    /\ calls[c].discarded = 1
    /\ DOMAIN db.customers # {}

(* C12: a QuoteService.update given an empty or a missing item list: the   *)
(* item check, which runs after the header update was issued, sends it to  *)
(* the catch block with the validation error and stores nothing; the call  *)
(* ends in that thrown error after a rollback.  Only a call given at least *)
(* one item enters updateItems or commits.                                 *)
NoItemsGiven(r) == ~r.hasItems \/ r.items = <<>>
InUpdateItems(r) == r.pc \in {"updateItems.destroy", "updateItems.create"}
UpdateRejectsNoItems(c) ==
  (calls[c].pc = "update.items" /\ calls'[c] # calls[c] /\ NoItemsGiven(calls'[c])) =>
    /\ calls'[c].pc = "update.catch"
    /\ calls'[c].err = ItemsRequiredOnUpdate
    /\ db' = db
UpdateWithNoItemsStoresNothing(c) ==
  IsCall(c, "quote.update") =>
    /\ (InUpdateItems(calls[c]) \/ calls[c].pc = "update.commit" \/ Returned(c, 200))
         => ~NoItemsGiven(calls[c])
    /\ calls[c].err = ItemsRequiredOnUpdate =>
         /\ NoItemsGiven(calls[c])
         /\ db = calls[c].snap
         /\ \A j \in 1..Len(calls[c].pend) :
              calls[c].pend[j].t \in {"updCustomer", "updQuote"}
         /\ Done(c) => Thrown(c) /\ calls[c].tx = "rolledback"
C12_UpdateWithoutItemsFails ==
  /\ [](\A c \in Slots : UpdateWithNoItemsStoresNothing(c))
  /\ [][\A c \in Slots : UpdateRejectsNoItems(c)]_vars

(* an empty list was refused after the customer and the header updates *)
C12_Witness ==
  \E c \in Slots :
    /\ IsCall(c, "quote.update") /\ Thrown(c)
    /\ calls[c].err = ItemsRequiredOnUpdate
    /\ calls[c].hasItems /\ calls[c].items = <<>>
    /\ calls[c].discarded = 2

(* C13: QuoteService.delete returns status 200 exactly when a quote of the *)
(* id was stored, and then the quote is gone and getOne by its serial      *)
(* number, which returned the quote and its items before, returns 404; it  *)
(* returns status 404 exactly when no quote had the id, the store as it    *)
(* was; a thrown failure has removed nothing.                              *)
C13_DeleteResults ==
  \A c \in Slots :
    (IsCall(c, "quote.delete") /\ Done(c)) =>
      LET id == calls[c].qid
          before == calls[c].snap
      IN  /\ Returned(c, 200) \/ Returned(c, 404) \/ Thrown(c)
          /\ Returned(c, 200) =>
               /\ id \in DOMAIN before.quotes
               /\ id \notin DOMAIN db.quotes
               /\ GetOne(before, before.quotes[id].serialNumber).id = id
               /\ GetOne(db, before.quotes[id].serialNumber).status = 404
               /\ \A n \in SerialNumbers : GetOne(db, n).id # id
          /\ Returned(c, 404) => id \notin DOMAIN before.quotes /\ db = before
          /\ Thrown(c) => db = before

(* a quote of two items was deleted *)
C13_Witness ==
  \E c \in Slots :
    /\ IsCall(c, "quote.delete") /\ Returned(c, 200)
    /\ Len(GetOne(calls[c].snap,
                   calls[c].snap.quotes[calls[c].qid].serialNumber).items) = 2
    /\ GetOne(db, calls[c].snap.quotes[calls[c].qid].serialNumber).status = 404

(* C14: no two stored quotes carry the same serial number, whatever the    *)
(* interleaving of creations; a save whose serial number a stored quote    *)
(* carries sends the call to the catch block and stores nothing, and no    *)
(* step of a creation changes a stored quote.                              *)
SerialsDistinct ==
  \A q1, q2 \in DOMAIN db.quotes :
    q1 # q2 => db.quotes[q1].serialNumber # db.quotes[q2].serialNumber
CollisionRejected(c) ==
  (calls[c].pc = "create.save" /\ calls'[c] # calls[c]
     /\ calls[c].serial \in UsedSerials(db)) =>
    calls'[c].pc = "create.catch" /\ db' = db
StoredQuotesKept(c) ==
  (IsCall(c, "quote.create") /\ calls'[c] # calls[c]) =>
    \A q \in DOMAIN db.quotes : q \in DOMAIN db'.quotes /\ db'.quotes[q] = db.quotes[q]
C14_SerialNumbersUnique ==
  /\ []SerialsDistinct
  /\ [][\A c \in Slots : CollisionRejected(c) /\ StoredQuotesKept(c)]_vars

(* a creation lost the race: the serial number it had generated was stored *)
(* by another creation before its save, and it was rolled back             *)
C14_Witness ==
  \E c \in Slots :
    /\ IsCall(c, "quote.create") /\ Thrown(c)
    /\ calls[c].err = UniqueViolation /\ calls[c].tx = "rolledback"
    /\ calls[c].qid = Null /\ calls[c].serial # 0
    /\ calls[c].serial \in UsedSerials(db)
    /\ calls[c].serial \notin UsedSerials(calls[c].snap)

(* C20: customer resolution of QuoteService.create.  Given a full name and *)
(* no customer id, one customer is created and the quote is linked to its  *)
(* id; otherwise, given a person id, that customer (when stored) is        *)
(* updated and the quote is linked to the customer id given; otherwise no  *)
(* customer is written and the quote is linked to the customer id given,   *)
(* null when none is.  The three cases exclude one another.                *)
NewCustomerGiven(d) == d.fullName # Null /\ d.customerId = Null
PersonGiven(d) == ~NewCustomerGiven(d) /\ d.personId # Null
RECURSIVE CustomerWrites(_)
CustomerWrites(ws) ==
  IF ws = <<>> THEN <<>>
  ELSE (IF Head(ws).t \in {"insCustomer", "updCustomer"} THEN <<Head(ws)>> ELSE <<>>)
       \o CustomerWrites(Tail(ws))
Resolved(c) ==
  /\ IsCall(c, "quote.create")
  /\ calls[c].pc \in {"create.shop", "create.serial", "create.save", "create.items",
                       "create.commit"}
CustomerResolvedAsGiven(c) ==
  LET d == calls[c].customerData
      ws == CustomerWrites(calls[c].pend)
  IN  /\ NewCustomerGiven(d) =>
           /\ calls[c].customerId \in CustomerIds \ DOMAIN db.customers
           /\ ws = <<W("insCustomer", calls[c].customerId, d.fullName)>>
      /\ PersonGiven(d) =>
           /\ calls[c].customerId = d.customerId
           /\ IF d.personId \in DOMAIN db.customers
                THEN Len(ws) = 1 /\ ws[1].t = "updCustomer" /\ ws[1].id = d.personId
                ELSE ws = <<>>
      /\ (~NewCustomerGiven(d) /\ ~PersonGiven(d)) =>
           calls[c].customerId = d.customerId /\ ws = <<>>
      /\ calls[c].qid # Null =>
           View(c).quotes[calls[c].qid].customerId = calls[c].customerId
C20_CustomerResolution ==
  \A c \in Slots :
    /\ Resolved(c) => CustomerResolvedAsGiven(c)
    /\ (IsCall(c, "quote.create") /\ Returned(c, 201)) =>
         LET d == calls[c].customerData
             linked == db.quotes[calls[c].qid].customerId
         IN  /\ linked = calls[c].customerId
             /\ NewCustomerGiven(d) =>
                  /\ linked \in DOMAIN db.customers \ DOMAIN calls[c].snap.customers
                  /\ db.customers[linked] = d.fullName
             /\ ~NewCustomerGiven(d) =>
                  /\ linked = d.customerId
                  /\ DOMAIN db.customers = DOMAIN calls[c].snap.customers
             /\ (~NewCustomerGiven(d) /\ ~PersonGiven(d)) =>
                  db.customers = calls[c].snap.customers

(* a full name and a person id were given without a customer id: the       *)
(* customer was created and the quote linked to it                         *)
C20_Witness ==
  \E c \in Slots :
    /\ IsCall(c, "quote.create") /\ Returned(c, 201)
    /\ calls[c].customerData.fullName # Null
    /\ calls[c].customerData.personId # Null
    /\ calls[c].customerData.customerId = Null
    /\ db.quotes[calls[c].qid].customerId \in DOMAIN db.customers
    /\ calls[c].snap.customers = NoRows

(* C10: a create whose shop slug matches no shop ends in a thrown failure  *)
(* with its transaction rolled back, and stores nothing.                   *)
ShopMissing(c) == calls[c].shop # Null /\ calls[c].shop \notin DOMAIN ShopModel
C10_MissingShopFailsAndRollsBack ==
  \A c \in Slots :
    (IsCall(c, "quote.create") /\ Done(c) /\ ShopMissing(c)) =>
      /\ Thrown(c)
      /\ calls[c].tx = "rolledback"
      /\ db = calls[c].snap

----------------------------------------------------------------------------
(* Claims on BillingItemService, under SpecBilling and SpecConcurrent *)

(* C4: when BillingItemService.create with deductFromStock returns, the    *)
(* stock item of the item's (productVariantId, stockId) is lower by the     *)
(* item's quantity than when create was called, one SUBTRACT was issued,    *)
(* and every other stock item is as it was.                                 *)
C4_CreateDeductsExactly ==
  \A c \in Slots :
    (IsCall(c, "billing.create") /\ calls[c].pc = "item.return" /\ calls[c].deduct) =>
      LET item == calls[c].items[calls[c].i]
          k == StockKeyOf(item)
      IN  /\ k \in DOMAIN calls[c].itemPre
          /\ View(c).stock = [calls[c].itemPre EXCEPT ![k] = @ - item.quantity]
          /\ calls[c].subs = 1

(* the second item of a billing deducted from the stock item of the first *)
C4_Witness ==
  \E c \in Slots :
    /\ IsCall(c, "billing.create") /\ calls[c].pc = "item.return" /\ calls[c].deduct
    /\ calls[c].i = 2
    /\ StockKeyOf(calls[c].items[1]) = StockKeyOf(calls[c].items[2])
    /\ View(c).stock[StockKeyOf(calls[c].items[2])]
         = db.stock[StockKeyOf(calls[c].items[2])]
           - calls[c].items[1].quantity - calls[c].items[2].quantity

(* the first cancellation of a billing created with deduction has completed *)
RoundTrip(c) ==
  /\ IsCall(c, "billing.cancel") /\ Returned(c, 200)
  /\ calls[c].snap.billings[calls[c].bid].deducted
  /\ calls[c].snap.billings[calls[c].bid].cancels = 0

CancelledFromItemStock(c) ==
  \A j \in 1..Len(calls[c].items) : calls[c].items[j].stockId = calls[c].stockId

(* C5, as claimed: after create with deduction and one cancel of the same  *)
(* items, whatever stockId cancel is given, every stock quantity is what   *)
(* it was before the creation.                                             *)
C5_RoundTripAnyStock ==
  \A c \in Slots :
    RoundTrip(c) => db.stock = db.billings[calls[c].bid].before

(* C5, amended: the same, when the stockId given to cancel is the stockId  *)
(* of each of the items.                                                   *)
C5_RoundTripSameStock ==
  \A c \in Slots :
    (RoundTrip(c) /\ CancelledFromItemStock(c)) =>
      db.stock = db.billings[calls[c].bid].before

(* two items were restocked *)
C5_Witness ==
  \E c \in Slots :
    /\ RoundTrip(c) /\ CancelledFromItemStock(c)
    /\ Len(calls[c].items) = 2
    /\ calls[c].snap.stock # db.stock
    /\ db.stock = db.billings[calls[c].bid].before

(* the items of the cancellation of call c, each at the stockId given *)
CancelItems(c) ==
  [j \in 1..Len(calls[c].items) |-> [calls[c].items[j] EXCEPT !.stockId = calls[c].stockId]]

RECURSIVE SoldIn(_, _)
SoldIn(items, k) ==
  IF items = <<>> THEN 0
  ELSE (IF StockKeyOf(Head(items)) = k THEN Head(items).quantity ELSE 0)
       + SoldIn(Tail(items), k)

RECURSIVE SoldOf(_, _)
SoldOf(bs, k) ==
  IF bs = {} THEN 0
  ELSE LET b == CHOOSE x \in bs : TRUE
       IN  SoldIn(db.billingItems[b], k) + SoldOf(bs \ {b}, k)

(* what the stored billings have sold of stock item k *)
Sold(k) == SoldOf(DOMAIN db.billings, k)

(* a cancellation of a billing that had been cancelled before has completed *)
CancelledAgain(c) ==
  /\ IsCall(c, "billing.cancel") /\ Returned(c, 200)
  /\ calls[c].snap.billings[calls[c].bid].cancels >= 1

(* C18: a second cancellation of a billing already CANCELED is not refused: *)
(* it adds the quantity of every item to the stock again, so that after a   *)
(* creation with deduction, a first cancellation that restored the stock    *)
(* and a second one at the stockId of the items, every stock item is above  *)
(* its quantity before the creation by what the billing sold of it.         *)
C18_SecondCancelRestocksAgain ==
  \A c \in Slots :
    CancelledAgain(c) =>
      LET before == db.billings[calls[c].bid].before
      IN  /\ calls[c].snap.billings[calls[c].bid].status = "CANCELED"
          /\ \A k \in DOMAIN db.stock :
               db.stock[k] = calls[c].snap.stock[k] + SoldIn(CancelItems(c), k)
          /\ (calls[c].snap.stock = before /\ CancelledFromItemStock(c)) =>
               \A k \in DOMAIN db.stock :
                 db.stock[k] = before[k] + SoldIn(calls[c].items, k)

(* a billing of two items, created with deduction and cancelled twice *)
C18_Witness ==
  \E c \in Slots :
    /\ CancelledAgain(c) /\ CancelledFromItemStock(c)
    /\ calls[c].snap.billings[calls[c].bid].deducted
    /\ calls[c].snap.stock = db.billings[calls[c].bid].before
    /\ Len(calls[c].items) = 2
    /\ \E k \in DOMAIN db.stock : db.stock[k] > db.billings[calls[c].bid].before[k]

(* C19: BillingItemService.create with deductFromStock false stores the    *)
(* line item and issues no stock write; no call of QuoteService issues a   *)
(* stock write; the only step that changes a stock quantity is the commit  *)
(* of a billing created with deduction.                                    *)
NoStockWrite(c) ==
  \A j \in 1..Len(calls[c].pend) : calls[c].pend[j].t # "setStock"
QuoteCall(c) == calls[c].op \in {"quote.create", "quote.update", "quote.delete"}
CreateWithoutDeduction(c) ==
  IsCall(c, "billing.create") /\ ~calls[c].deduct
StockUntouched(c) ==
  /\ QuoteCall(c) => NoStockWrite(c) /\ db.stock = calls[c].snap.stock
  /\ CreateWithoutDeduction(c) =>
       /\ NoStockWrite(c) /\ db.stock = calls[c].snap.stock
       /\ calls[c].pc = "item.return" =>
            /\ View(c).billingItems[calls[c].bid] = SubSeq(calls[c].items, 1, calls[c].i)
            /\ View(c).stock = calls[c].itemPre
       /\ Returned(c, 200) => db.billingItems[calls[c].bid] = calls[c].items
StockChangedByDeductingBilling ==
  db'.stock # db.stock =>
    \E c \in Slots : /\ IsCall(c, "billing.create") /\ calls[c].deduct
                     /\ calls[c].pc = "billing.commit"
C19_StockDeductedForBillingsOnly ==
  /\ [](\A c \in Slots : StockUntouched(c))
  /\ [][StockChangedByDeductingBilling]_vars

(* a billing of two items was created without deduction *)
C19_Witness ==
  \E c \in Slots :
    /\ CreateWithoutDeduction(c) /\ Returned(c, 200)
    /\ Len(calls[c].items) = 2
    /\ db.billingItems[calls[c].bid] = calls[c].items
    /\ db.stock = stock0

(* the stored billings that sold from stock item k *)
SalesFrom(k) == {b \in DOMAIN db.billings : SoldIn(db.billingItems[b], k) > 0}

(* C6: whatever the interleaving of two or more sales from one stock item, *)
(* its quantity is not negative and every stored sale is deducted: the     *)
(* quantity is the initial one less what was sold (so two sales of the     *)
(* last unit are never both stored).                                       *)
C6_NoOversellNoLostDeduction ==
  \A k \in DOMAIN db.stock :
    Cardinality(SalesFrom(k)) >= 2 =>
      /\ db.stock[k] >= 0
      /\ db.stock[k] = stock0[k] - Sold(k)

----------------------------------------------------------------------------
(* Claims on the catch blocks, under SpecHandlers *)

Failed(c) == Done(c) /\ calls[c].err # NoErr
TransactionalCreates == {"QuoteService.create", "UserService.register"}

(* C15: a transactional create whose database access failed is rolled     *)
(* back and throws; the error of a unique violation (23505) carries a      *)
(* message other than the one of the database, the error of any other      *)
(* database failure carries the message of the database.                   *)
C15_UniqueViolationTranslated ==
  \A c \in Slots :
    (calls[c].op \in TransactionalCreates /\ Failed(c)) =>
      /\ calls[c].outcome = "thrown" /\ calls[c].tx = "rolledback"
      /\ calls[c].err.code = "23505" => calls[c].err.msg # UniqueViolation.msg
      /\ calls[c].err.code = "08006" => calls[c].err.msg = OtherDbError.msg

(* C16: a failure caught by an operation is thrown again or passed to next, *)
(* except in UserService.setPermissions, which returns the status 500.      *)
C16_CaughtFailuresPropagated ==
  \A c \in Slots :
    (calls[c].op \in Operations /\ Failed(c)) =>
      IF calls[c].op = "UserService.setPermissions"
        THEN Returned(c, 500)
        ELSE calls[c].outcome \in {"thrown", "next"}

----------------------------------------------------------------------------
(* Claims on getMonthlySales, under SpecSales *)

(* discounted(base, discountType, discount), as claimed *)
Discounted(base, discountType, discount) ==
  CASE discountType = "PERCENTAGE" ->
         FracMul(Whole(base), FracSub(Whole(1), Frac(discount, 100)))
    [] discountType = "FIXED" -> IF base = 0 THEN Whole(base) ELSE Whole(base - discount)
    [] OTHER -> Whole(base)

(* what the report of call c holds for the billing: the total of its month *)
(* and currency, nothing when the month has no row                         *)
Attributed(c, b) ==
  IF MonthOf(b.createdDate) \in DOMAIN calls[c].result
    THEN calls[c].result[MonthOf(b.createdDate)][b.currency]
    ELSE Whole(0)

NoVariantDeleted(b) == \A j \in 1..Len(b.items) : ~b.items[j].variantDeleted

Reported(c) ==
  /\ IsCall(c, "sales.monthly") /\ Returned(c, 200)
  /\ InReport(db.billings["b1"])

(* C17, as claimed: the amount the report holds for a paid billing is      *)
(* discounted(base, discountType, discount), base the sum of the           *)
(* totalPrice of its items.                                                *)
C17_SalesAmountIsDiscounted ==
  \A c \in Slots :
    Reported(c) =>
      LET b == db.billings["b1"]
      IN  FracEq(Attributed(c, b), Discounted(b.subtotal, b.discountType, b.discount))

(* C17, amended: the same, for a billing none of whose items belongs to a  *)
(* deleted product variant.                                                *)
C17_SalesAmountOfKeptItems ==
  \A c \in Slots :
    (Reported(c) /\ NoVariantDeleted(db.billings["b1"])) =>
      LET b == db.billings["b1"]
      IN  FracEq(Attributed(c, b), Discounted(b.subtotal, b.discountType, b.discount))

(* a fixed discount of 50 on two items of 100: the report holds 150 *)
C17_Witness ==
  \E c \in Slots :
    LET b == db.billings["b1"]
    IN  /\ Reported(c) /\ NoVariantDeleted(b)
        /\ b.discountType = "FIXED" /\ b.discount = 50 /\ b.subtotal = 200
        /\ Len(b.items) = 2
        /\ FracEq(Attributed(c, b), Whole(150))

(* the calendar year: from 1 January 00:00 up to, not including, the next *)
(* 1 January 00:00                                                        *)
InCalendarYear(t) == StartOfYear <= t /\ t < DaysOfYear * HoursOfDay

SomeItemKept(b) == \E j \in 1..Len(b.items) : ~b.items[j].variantDeleted

(* the report of call c has a row for the one billing of the store *)
Counted(c) == DOMAIN calls[c].result # {}

(* C22, as claimed: the report counts the billing exactly when it is PAID *)
(* and its createdDate lies in the calendar year, 31 December to its last *)
(* instant included (for a billing with an item of a live variant).       *)
C22_CountsPaidOfWholeYear ==
  \A c \in Slots :
    (IsCall(c, "sales.monthly") /\ Returned(c, 200) /\ SomeItemKept(db.billings["b1"])) =>
      (Counted(c) <=> /\ db.billings["b1"].status = "PAID"
                      /\ InCalendarYear(db.billings["b1"].createdDate))

----------------------------------------------------------------------------
(* Claims on the transactions of QuoteService and UserService, under *)
(* SpecTransactions                                                  *)

TransactionOps ==
  {"quote.create", "quote.update", "user.register", "user.update", "user.delete"}

(* the call has returned or thrown with its transaction neither committed *)
(* nor rolled back                                                        *)
LeftOpen(c) == Done(c) /\ calls[c].op \in TransactionOps /\ calls[c].tx = "open"

(* C21: when an operation that opened a transaction returns or throws,   *)
(* the transaction has been committed or rolled back, and no write of it *)
(* is still pending.                                                     *)
C21_TransactionsEnded ==
  \A c \in Slots :
    (Done(c) /\ calls[c].op \in TransactionOps) =>
      /\ calls[c].tx \in {"committed", "rolledback"}
      /\ calls[c].pend = <<>>

====
